---- MODULE Spec2Model ----
(***************************************************************************)
(* Cart state manager of src/contexts/CartContext.tsx (CartProvider).      *)
(*                                                                         *)
(* State: the React state `items` and `directPurchaseItem`, and the        *)
(* localStorage record under the key 'cart'.  One action per function of   *)
(* the context value; an action is the call, the re-render it causes and   *)
(* the save effect of that render.  `last`, `prevItems`, `prevDirect` and  *)
(* `itemsAtSet` are history variables: the last call with its arguments    *)
(* and the state it was made in.  `snapshot` is the array `items` that a   *)
(* consumer obtained before that call, as it reads after the call: arrays  *)
(* hold references to line objects, and a copied array shares them.        *)
(*                                                                         *)
(* Optional values (an omitted argument, null, a missing record) are       *)
(* None == <<>> or Some(x) == <<x>>; an undefined selectedSize is the      *)
(* string Undef; an optional property of a product is a missing field.     *)
(* Calls are made through the context value of the current render, one     *)
(* after the other, and each state updater is applied once per call.       *)
(***************************************************************************)
EXTENDS Integers, Sequences, FiniteSets, TLC

VARIABLES items, directPurchaseItem, store, mounted,
          last, prevItems, prevDirect, prevStore, itemsAtSet, snapshot

vars == <<items, directPurchaseItem, store, mounted,
          last, prevItems, prevDirect, prevStore, itemsAtSet, snapshot>>

\* ------------------------------------------------------------------ bounds
MaxLines == 3
MaxTotal == 3

\* ------------------------------------------------------- optional values
None == <<>>
Some(x) == <<x>>
Undef == "undefined"

\* ------------------------------------------------------- product catalog
\* Item records (import of '@/types'); sizes and categoryIds are optional.
ProductIds == {"A", "B", "C"}

Item(id) ==
  CASE id = "A" -> [id |-> "A", sizes |-> <<"M", "L">>, categoryIds |-> <<"c1">>,
                    pricing |-> [basePrice |-> 100, includeTransactionFee |-> TRUE,
                                 transactionFeeRate |-> 10]]
    [] id = "B" -> [id |-> "B", sizes |-> <<>>, categoryIds |-> <<"c1", "c3">>,
                    pricing |-> [basePrice |-> 50, includeTransactionFee |-> FALSE,
                                 transactionFeeRate |-> 10]]
    [] id = "C" -> [id |-> "C", categoryIds |-> <<"c2">>,
                    pricing |-> [basePrice |-> 20, includeTransactionFee |-> TRUE,
                                 transactionFeeRate |-> 5]]

\* product.sizes && product.sizes.length > 0
HasSizes(product) == "sizes" \in DOMAIN product /\ Len(product.sizes) > 0

\* external pricing resolver
getEffectivePrice(basePrice, includeTransactionFee, transactionFeeRate) ==
  IF includeTransactionFee
  THEN basePrice + (basePrice * transactionFeeRate) \div 100
  ELSE basePrice

\* ------------------------------------------------------------- arguments
\* an omitted quantity is None
QtyArgs == {-1, 0, 1, 2}
AddQtyArgs == {None, Some(0), Some(2)}
ReplaceQtyArgs == {None, Some(0), Some(2)}
SizeStrings == {"M", "L"}
\* the size passed with a product: one of its sizes; with a product that has
\* an empty size list a size may still be passed
SizeArgsOf(product) ==
  IF HasSizes(product) THEN {product.sizes[i] : i \in 1..Len(product.sizes)}
  ELSE IF "sizes" \in DOMAIN product THEN {Undef, "M"}
  ELSE {Undef}
\* variants are passed with products that have sizes
VariantArgsOf(product) ==
  IF HasSizes(product) THEN {None, Some([color |-> "red"])} ELSE {None}
\* updateItemSize is called for products that have sizes
ResizableIds == {p \in ProductIds : HasSizes(Item(p))}
VariantIds == {None, Some("v7")}
DirectProducts == {"A"}
DirectQtys == {2}
DirectSizes == {"M"}

\* a parameter with default value 1: `quantity: number = 1`
DefaultOne(q) == IF q = None THEN 1 ELSE q[1]

\* ------------------------------------------------------- array helpers
\* The callback of an array method is applied to every element first:
\* Tests(arr, P) is written [k \in 1..Len(arr) |-> P(arr[k])] at each use.

\* Array.prototype.findIndex over the results of its callback, 1-based;
\* 0 when no element satisfies it
findIndex(tests) ==
  IF \E i \in DOMAIN tests : tests[i]
  THEN CHOOSE i \in DOMAIN tests : tests[i] /\ \A j \in 1..(i - 1) : ~tests[j]
  ELSE 0

\* Array.prototype.some over the results of its callback
some(tests) == \E i \in DOMAIN tests : tests[i]

\* Array.prototype.reduce((sum, x) => sum + term(x), 0) over the terms
RECURSIVE reduceSum(_)
reduceSum(terms) ==
  IF terms = <<>> THEN 0
  ELSE terms[1] + reduceSum([k \in 1..(Len(terms) - 1) |-> terms[k + 1]])

\* ------------------------------------------------------------ persistence
\* JSON.stringify of one CartItem: a property whose value is undefined is
\* left out of the document
StringifyItem(item) ==
  LET keys == {"product", "quantity"}
              \cup (IF item.selectedVariants # None THEN {"selectedVariants"} ELSE {})
              \cup (IF item.selectedSize # Undef THEN {"selectedSize"} ELSE {})
  IN [k \in keys |->
        CASE k = "product" -> item.product
          [] k = "quantity" -> item.quantity
          [] k = "selectedVariants" -> item.selectedVariants[1]
          [] k = "selectedSize" -> item.selectedSize]

\* JSON.stringify(items)
JSONstringify(arr) == [i \in 1..Len(arr) |-> StringifyItem(arr[i])]

\* localStorage.setItem('cart', value) / localStorage.removeItem('cart')
lsSetItem(st, value) == Some(value)
lsRemoveItem(st) == None

\* mutant of SaveEffect: the effect does not run
SaveEffect_skipped(st) == store' = st

\* useEffect(() => localStorage.setItem('cart', JSON.stringify(items)), [items])
\* run after a render in which `items` is a new array; st is the record as
\* the event handler left it
SaveEffect(st) == store' = lsSetItem(st, JSONstringify(items'))

\* ------------------------------------------------------- state updaters
\* mutant of addItemUpdater: lines are matched by product ID only
addItemUpdater_byIdOnly(prevItems_, product, quantity, variants, selectedSize) ==
  LET match(item) == item.product.id = product.id
      existingItemIndex == findIndex([k \in 1..Len(prevItems_) |-> match(prevItems_[k])])
  IN IF existingItemIndex >= 1
     THEN [prevItems_ EXCEPT ![existingItemIndex].quantity = @ + quantity]
     ELSE Append(prevItems_, [product |-> product, quantity |-> quantity,
                              selectedVariants |-> variants,
                              selectedSize |-> selectedSize])

\* addItem: the function passed to setItems
addItemUpdater(prevItems_, product, quantity, variants, selectedSize) ==
  LET match(item) ==
        IF item.product.id # product.id THEN FALSE
        ELSE IF HasSizes(product) THEN item.selectedSize = selectedSize
        ELSE TRUE
      existingItemIndex == findIndex([k \in 1..Len(prevItems_) |-> match(prevItems_[k])])
  IN IF existingItemIndex >= 1
     THEN [prevItems_ EXCEPT ![existingItemIndex].quantity = @ + quantity]
     ELSE Append(prevItems_, [product |-> product, quantity |-> quantity,
                              selectedVariants |-> variants,
                              selectedSize |-> selectedSize])

\* mutant of removeItemUpdater: only the first line of the product is dropped
removeItemUpdater_firstOnly(prevItems_, productId) ==
  LET isLine(item) == item.product.id = productId
      first == findIndex([k \in 1..Len(prevItems_) |-> isLine(prevItems_[k])])
  IN IF first = 0 THEN prevItems_
     ELSE SubSeq(prevItems_, 1, first - 1) \o SubSeq(prevItems_, first + 1, Len(prevItems_))

\* addItem: what the array prevItems reads once the updater has run.
\* newItems = [...prevItems] copies the references, so the `+=` of line 70
\* writes to the line object that prevItems holds too.
prevItemsAfterAddItem(prevItems_, product, quantity, variants, selectedSize) ==
  LET match(item) ==
        IF item.product.id # product.id THEN FALSE
        ELSE IF HasSizes(product) THEN item.selectedSize = selectedSize
        ELSE TRUE
      existingItemIndex == findIndex([k \in 1..Len(prevItems_) |-> match(prevItems_[k])])
  IN IF existingItemIndex >= 1
     THEN [prevItems_ EXCEPT ![existingItemIndex].quantity = @ + quantity]
     ELSE prevItems_

\* removeItem: prevItems.filter(item => item.product.id !== productId)
removeItemUpdater(prevItems_, productId) ==
  SelectSeq(prevItems_, LAMBDA item : item.product.id # productId)

\* mutant of updateQuantityUpdater: the quantity is added to the line's
updateQuantityUpdater_add(prevItems_, productId, quantity) ==
  [i \in 1..Len(prevItems_) |->
     IF prevItems_[i].product.id = productId
     THEN [prevItems_[i] EXCEPT !.quantity = @ + quantity]
     ELSE prevItems_[i]]

\* updateQuantity (quantity > 0): prevItems.map(...)
updateQuantityUpdater(prevItems_, productId, quantity) ==
  [i \in 1..Len(prevItems_) |->
     IF prevItems_[i].product.id = productId
     THEN [prevItems_[i] EXCEPT !.quantity = quantity]
     ELSE prevItems_[i]]

\* updateItemSize, the map step
updateItemSizeMap(prevItems_, productId, selectedSize) ==
  LET isTarget(i) == i.product.id = productId /\ i.selectedSize = selectedSize
      existingIndex == findIndex([n \in 1..Len(prevItems_) |-> isTarget(prevItems_[n])])
  IN [k \in 1..Len(prevItems_) |->
        IF prevItems_[k].product.id = productId
        THEN IF existingIndex >= 1 /\ existingIndex # k
             THEN [prevItems_[existingIndex] EXCEPT
                     !.quantity = prevItems_[existingIndex].quantity
                                  + prevItems_[k].quantity]
             ELSE [prevItems_[k] EXCEPT !.selectedSize = selectedSize]
        ELSE prevItems_[k]]

\* mutant of dedupFilter: the last occurrence of each (product.id,
\* selectedSize) is kept
dedupFilter_keepLast(self) ==
  LET keep(k) ==
        \A n \in (k + 1)..Len(self) :
          ~(self[n].product.id = self[k].product.id
            /\ self[n].selectedSize = self[k].selectedSize)
      RECURSIVE Build(_)
      Build(k) == IF k > Len(self) THEN <<>>
                  ELSE IF keep(k) THEN <<self[k]>> \o Build(k + 1)
                  ELSE Build(k + 1)
  IN Build(1)

\* mutant of dedupFilter: no line is dropped
dedupFilter_keepAll(self) == self

\* updateItemSize, the filter step: keep the first occurrence of each
\* (product.id, selectedSize)
dedupFilter(self) ==
  LET keep(k) ==
        LET same(i) == i.product.id = self[k].product.id
                       /\ i.selectedSize = self[k].selectedSize
        IN k = findIndex([n \in 1..Len(self) |-> same(self[n])])
      RECURSIVE Build(_)
      Build(k) == IF k > Len(self) THEN <<>>
                  ELSE IF keep(k) THEN <<self[k]>> \o Build(k + 1)
                  ELSE Build(k + 1)
  IN Build(1)

updateItemSizeUpdater(prevItems_, productId, selectedSize) ==
  dedupFilter(updateItemSizeMap(prevItems_, productId, selectedSize))

\* replaceItem: oldItem?.quantity || 1
oldQuantityOf(prevItems_, oldProductId) ==
  LET isOld(item) == item.product.id = oldProductId
      oldIndex == findIndex([k \in 1..Len(prevItems_) |-> isOld(prevItems_[k])])
  IN IF oldIndex = 0 THEN 1
     ELSE IF prevItems_[oldIndex].quantity = 0 THEN 1
     ELSE prevItems_[oldIndex].quantity

\* mutant of sameCategoryReplacement: the categories are not compared
sameCategoryReplacement_idOnly(prevItems_, oldProductId, newProduct) ==
  \E i \in 1..Len(prevItems_) : prevItems_[i].product.id = newProduct.id

\* mutant of sameCategoryReplacement: a line of the new product does not
\* count
sameCategoryReplacement_categoriesOnly(prevItems_, oldProductId, newProduct) ==
  \E i \in 1..Len(prevItems_) :
    /\ prevItems_[i].product.id = oldProductId
    /\ \A j \in 1..(i - 1) : prevItems_[j].product.id # oldProductId
    /\ "categoryIds" \in DOMAIN prevItems_[i].product
    /\ "categoryIds" \in DOMAIN newProduct
    /\ \E a \in 1..Len(prevItems_[i].product.categoryIds) :
         \E b \in 1..Len(newProduct.categoryIds) :
           prevItems_[i].product.categoryIds[a] = newProduct.categoryIds[b]

\* replaceItem: sameCategoryReplacement
sameCategoryReplacement(prevItems_, oldProductId, newProduct) ==
  LET isOld(item) == item.product.id = oldProductId
      oldIndex == findIndex([k \in 1..Len(prevItems_) |-> isOld(prevItems_[k])])
      shared == /\ oldIndex >= 1
                /\ "categoryIds" \in DOMAIN prevItems_[oldIndex].product
                /\ "categoryIds" \in DOMAIN newProduct
                /\ LET oldCats == prevItems_[oldIndex].product.categoryIds
                       newCats == newProduct.categoryIds
                   IN \E a \in 1..Len(oldCats) : \E b \in 1..Len(newCats) :
                        oldCats[a] = newCats[b]
      test(item) == item.product.id = newProduct.id \/ shared
  IN some([k \in 1..Len(prevItems_) |-> test(prevItems_[k])])

\* mutant of orOne: the quantity is used as given
orOne_asGiven(quantity) == quantity

\* replaceItem: (quantity || 1)
orOne(quantity) == IF quantity = 0 THEN 1 ELSE quantity

\* replaceItem: the function passed to setItems
replaceItemUpdater(prevItems_, oldProductId, newProduct, quantity, variants, selectedSize) ==
  LET oldQuantity == oldQuantityOf(prevItems_, oldProductId)
      sameCategory == sameCategoryReplacement(prevItems_, oldProductId, newProduct)
      filteredItems == SelectSeq(prevItems_, LAMBDA item : item.product.id # oldProductId)
      match(item) ==
        IF item.product.id # newProduct.id THEN FALSE
        ELSE IF HasSizes(newProduct) THEN item.selectedSize = selectedSize
        ELSE TRUE
      existingItemIndex == findIndex([k \in 1..Len(filteredItems) |-> match(filteredItems[k])])
  IN IF existingItemIndex >= 1
     THEN LET existing == filteredItems[existingItemIndex]
              updatedQuantity ==
                IF sameCategory
                THEN IF existing.quantity >= oldQuantity
                     THEN existing.quantity ELSE oldQuantity
                ELSE existing.quantity + orOne(quantity)
          IN [filteredItems EXCEPT ![existingItemIndex] =
                [product |-> existing.product,
                 quantity |-> updatedQuantity,
                 selectedVariants |-> IF variants # None THEN variants
                                      ELSE existing.selectedVariants,
                 selectedSize |-> IF selectedSize # Undef THEN selectedSize
                                  ELSE existing.selectedSize]]
     ELSE Append(filteredItems,
                 [product |-> newProduct,
                  quantity |-> IF sameCategory THEN oldQuantity ELSE orOne(quantity),
                  selectedVariants |-> variants,
                  selectedSize |-> selectedSize])

\* ---------------------------------------------------------- derived reads
\* const itemCount = items.reduce(...)
itemCount == reduceSum([k \in 1..Len(items) |-> items[k].quantity])

priceOf(product) ==
  getEffectivePrice(product.pricing.basePrice,
                    product.pricing.includeTransactionFee,
                    product.pricing.transactionFeeRate)

\* const totalAmount = items.reduce(...)
totalAmount ==
  reduceSum([k \in 1..Len(items) |-> priceOf(items[k].product) * items[k].quantity])

\* the context value: items, itemCount, totalAmount
ctxItems == IF directPurchaseItem # None THEN <<directPurchaseItem[1]>> ELSE items
\* mutant of ctxItemCount: the count of the cart whatever the mode
ctxItemCount_cart == itemCount

ctxItemCount == IF directPurchaseItem # None THEN directPurchaseItem[1].quantity
                ELSE itemCount
ctxTotalAmount ==
  IF directPurchaseItem # None
  THEN priceOf(directPurchaseItem[1].product) * directPurchaseItem[1].quantity
  ELSE totalAmount

\* ------------------------------------------------------------ the program
\* the carts explored: at most MaxLines lines, MaxTotal units in all
WithinBounds(arr) ==
  /\ Len(arr) <= MaxLines
  /\ reduceSum([k \in 1..Len(arr) |-> arr[k].quantity]) <= MaxTotal

NoCall == [op |-> "none", args |-> <<>>]

\* state after the first render: useState(null), the lazy initializer of
\* `items` with no record under 'cart'; the mount effect has not run yet
Init ==
  /\ items = <<>>
  /\ directPurchaseItem = None
  /\ store = None
  /\ mounted = FALSE
  /\ last = NoCall
  /\ prevItems = <<>>
  /\ prevDirect = None
  /\ prevStore = None
  /\ itemsAtSet = None
  /\ snapshot = <<>>

\* A behaviour records at most one call, its last step: every call is taken
\* both unrecorded, after which the program goes on, and recorded, with the
\* state it was made in kept in prevItems, prevDirect and prevStore.
Recording == last # NoCall

Called(op, args) ==
  \E record \in BOOLEAN :
    /\ last' = IF record THEN [op |-> op, args |-> args] ELSE NoCall
    /\ prevItems' = IF record THEN items ELSE <<>>
    /\ prevDirect' = IF record THEN directPurchaseItem ELSE None
    /\ prevStore' = IF record THEN store ELSE None

\* the array held from before a recorded call, as it reads after the call;
\* every updater but addItem's builds new line objects and leaves it as it
\* was
Held(after) == snapshot' = IF last' # NoCall THEN after ELSE <<>>

\* setItems(next): the re-render with the new array and its save effect
setItems(next) ==
  /\ items' = next
  /\ WithinBounds(next)
  /\ SaveEffect(store)

\* () => {}
noop == UNCHANGED <<items, directPurchaseItem, store>>

\* the save effect of the first render
Mount ==
  /\ ~mounted
  /\ mounted' = TRUE
  /\ UNCHANGED <<items, directPurchaseItem, last, prevItems, prevDirect,
                 prevStore, itemsAtSet, snapshot>>
  /\ SaveEffect(store)

addItem(product, quantity, variants, selectedSize) ==
  /\ setItems(addItemUpdater(items, product, DefaultOne(quantity), variants, selectedSize))
  /\ UNCHANGED directPurchaseItem

removeItem(productId) ==
  /\ setItems(removeItemUpdater(items, productId))
  /\ UNCHANGED directPurchaseItem

\* mutant of updateQuantity: only a negative quantity removes
updateQuantity_negativeOnly(productId, quantity) ==
  IF quantity < 0
  THEN removeItem(productId)
  ELSE /\ setItems(updateQuantityUpdater(items, productId, quantity))
       /\ UNCHANGED directPurchaseItem

updateQuantity(productId, quantity) ==
  IF quantity <= 0
  THEN removeItem(productId)
  ELSE /\ setItems(updateQuantityUpdater(items, productId, quantity))
       /\ UNCHANGED directPurchaseItem

updateItemSize(productId, selectedSize) ==
  /\ setItems(updateItemSizeUpdater(items, productId, selectedSize))
  /\ UNCHANGED directPurchaseItem

\* mutant of replaceItem: the new product is added, the old one is kept
replaceItem_addOnly(oldProductId, newProduct, quantity, variants, selectedSize) ==
  /\ setItems(addItemUpdater(items, newProduct, DefaultOne(quantity), variants,
                             selectedSize))
  /\ UNCHANGED directPurchaseItem

replaceItem(oldProductId, newProduct, quantity, variants, selectedSize) ==
  /\ setItems(replaceItemUpdater(items, oldProductId, newProduct,
                                 DefaultOne(quantity), variants, selectedSize))
  /\ UNCHANGED directPurchaseItem

\* mutant of ctxAddItem: addItem is exposed in both modes
ctxAddItem_ungated(product, quantity, variants, selectedSize) ==
  addItem(product, quantity, variants, selectedSize)

\* addItem: directPurchaseItem ? () => {} : addItem
ctxAddItem(product, quantity, variants, selectedSize) ==
  IF directPurchaseItem # None THEN noop
  ELSE addItem(product, quantity, variants, selectedSize)

\* removeItem: directPurchaseItem ? () => {} : removeItem
ctxRemoveItem(productId) ==
  IF directPurchaseItem # None THEN noop ELSE removeItem(productId)

\* updateQuantity: directPurchaseItem ? () => {} : updateQuantity
ctxUpdateQuantity(productId, quantity) ==
  IF directPurchaseItem # None THEN noop ELSE updateQuantity(productId, quantity)

\* updateItemSize: directPurchaseItem ? () => {} : updateItemSize
ctxUpdateItemSize(productId, selectedSize) ==
  IF directPurchaseItem # None THEN noop ELSE updateItemSize(productId, selectedSize)

\* replaceItem: directPurchaseItem ? () => {} : replaceItem
ctxReplaceItem(oldProductId, newProduct, quantity, variants, selectedSize) ==
  IF directPurchaseItem # None THEN noop
  ELSE replaceItem(oldProductId, newProduct, quantity, variants, selectedSize)

\* mutant of clearCart: () => {} while a direct-purchase item is set
clearCart_gated ==
  IF directPurchaseItem # None THEN noop
  ELSE /\ items' = <<>>
       /\ directPurchaseItem' = None
       /\ SaveEffect(lsRemoveItem(store))

\* clearCart: the handler removes the record, then the render with the new
\* empty array runs the save effect
clearCart ==
  /\ items' = <<>>
  /\ directPurchaseItem' = None
  /\ SaveEffect(lsRemoveItem(store))

\* clearDirectPurchase
clearDirectPurchase ==
  /\ directPurchaseItem' = None
  /\ UNCHANGED <<items, store>>

\* mutant of directItemOf: the supplied size is stored with the variant
directItemOf_keepSize(product, quantity, variantId, selectedSize) ==
  [product |-> product,
   quantity |-> quantity,
   selectedVariants |-> IF variantId # None THEN Some([variant |-> variantId[1]])
                        ELSE None,
   selectedSize |-> selectedSize]

\* the item stored by the context value's setDirectPurchaseItem
directItemOf(product, quantity, variantId, selectedSize) ==
  [product |-> product,
   quantity |-> quantity,
   selectedVariants |-> IF variantId # None THEN Some([variant |-> variantId[1]])
                        ELSE None,
   selectedSize |-> IF variantId # None THEN Undef ELSE selectedSize]

ctxSetDirectPurchaseItem(product, quantity, variantId, selectedSize) ==
  /\ directPurchaseItem' = Some(directItemOf(product, quantity, variantId, selectedSize))
  /\ UNCHANGED <<items, store>>

\* itemsAtSet: the cart sequence when setDirectPurchaseItem was called, kept
\* while the direct-purchase item is set and in the record of the call that
\* clears it
KeepAtSet == itemsAtSet' = IF directPurchaseItem # None THEN itemsAtSet ELSE None

\* ---------------------------------------------------------------- actions
\* the calls of each function that are explored
AddItemCalls ==
  UNION {{<<p, q, v, s>> : q \in AddQtyArgs, v \in VariantArgsOf(Item(p)),
                           s \in SizeArgsOf(Item(p))} : p \in ProductIds}
RemoveItemCalls == {<<p>> : p \in ProductIds}
UpdateQuantityCalls == {<<p, q>> : p \in ProductIds, q \in QtyArgs}
UpdateItemSizeCalls == {<<p, s>> : p \in ResizableIds, s \in SizeStrings}
ReplaceItemCalls ==
  UNION {{<<o, n, q, v, s>> : o \in ProductIds, q \in ReplaceQtyArgs,
                              v \in VariantArgsOf(Item(n)),
                              s \in SizeArgsOf(Item(n))} : n \in ProductIds}

\* While a direct-purchase item is set the five functions are () => {},
\* which takes no argument: one call of each stands for all of them.
Calls(all) ==
  IF directPurchaseItem # None THEN {CHOOSE c \in all : TRUE} ELSE all

AddItem ==
  \E c \in Calls(AddItemCalls) :
    /\ mounted /\ ~Recording
    /\ ctxAddItem(Item(c[1]), c[2], c[3], c[4])
    /\ Called("addItem", c)
    /\ Held(IF directPurchaseItem # None THEN items
            ELSE prevItemsAfterAddItem(items, Item(c[1]), DefaultOne(c[2]),
                                       c[3], c[4]))
    /\ KeepAtSet
    /\ UNCHANGED mounted

RemoveItem ==
  \E c \in Calls(RemoveItemCalls) :
    /\ mounted /\ ~Recording
    /\ ctxRemoveItem(c[1])
    /\ Called("removeItem", c)
    /\ Held(items)
    /\ KeepAtSet
    /\ UNCHANGED mounted

UpdateQuantity ==
  \E c \in Calls(UpdateQuantityCalls) :
    /\ mounted /\ ~Recording
    /\ ctxUpdateQuantity(c[1], c[2])
    /\ Called("updateQuantity", c)
    /\ Held(items)
    /\ KeepAtSet
    /\ UNCHANGED mounted

UpdateItemSize ==
  \E c \in Calls(UpdateItemSizeCalls) :
    /\ mounted /\ ~Recording
    /\ ctxUpdateItemSize(c[1], c[2])
    /\ Called("updateItemSize", c)
    /\ Held(items)
    /\ KeepAtSet
    /\ UNCHANGED mounted

ReplaceItem ==
  \E c \in Calls(ReplaceItemCalls) :
    /\ mounted /\ ~Recording
    /\ ctxReplaceItem(c[1], Item(c[2]), c[3], c[4], c[5])
    /\ Called("replaceItem", c)
    /\ Held(items)
    /\ KeepAtSet
    /\ UNCHANGED mounted

ClearCart ==
  /\ mounted /\ ~Recording
  /\ clearCart
  /\ Called("clearCart", <<>>)
  /\ Held(items)
  /\ itemsAtSet' = None
  /\ UNCHANGED mounted

ClearDirectPurchase ==
  /\ mounted /\ ~Recording
  /\ clearDirectPurchase
  /\ Called("clearDirectPurchase", <<>>)
  /\ Held(items)
  /\ itemsAtSet' = IF last' # NoCall THEN itemsAtSet ELSE None
  /\ UNCHANGED mounted

SetDirectPurchaseItem ==
  \E p \in DirectProducts, q \in DirectQtys, vid \in VariantIds, s \in DirectSizes :
    /\ mounted /\ ~Recording
    /\ ctxSetDirectPurchaseItem(Item(p), q, vid, s)
    /\ Called("setDirectPurchaseItem", <<p, q, vid, s>>)
    /\ Held(items)
    /\ itemsAtSet' = Some(items)
    /\ UNCHANGED mounted

Next ==
  \/ Mount
  \/ AddItem
  \/ RemoveItem
  \/ UpdateQuantity
  \/ UpdateItemSize
  \/ ReplaceItem
  \/ ClearCart
  \/ ClearDirectPurchase
  \/ SetDirectPurchaseItem

Spec == Init /\ [][Next]_vars

\* ------------------------------------------------------------ the startup
\* A string under the cart key.  The serialization of an array of line
\* items is the document JSONstringify gives; any other string is a
\* one-element sequence that holds the string itself.
RawText(string) == <<[text |-> string]>>
IsRawText(value) == Len(value) = 1 /\ DOMAIN value[1] = {"text"}

\* JSON.parse of one line item: a property the document leaves out reads as
\* undefined
ParseItem(doc) ==
  [product |-> doc.product,
   quantity |-> doc.quantity,
   selectedVariants |-> IF "selectedVariants" \in DOMAIN doc
                        THEN Some(doc.selectedVariants) ELSE None,
   selectedSize |-> IF "selectedSize" \in DOMAIN doc
                    THEN doc.selectedSize ELSE Undef]

\* the outcome of an evaluation: a value that is an array, a value that is
\* not, or an exception
Returned(arr) == [throws |-> FALSE, isArray |-> TRUE, value |-> arr]
ReturnedNull == [throws |-> FALSE, isArray |-> FALSE, value |-> <<>>]
Thrown == [throws |-> TRUE, isArray |-> FALSE, value |-> <<>>]

\* JSON.parse(text): 'null' is a document, the other raw strings are not
JSONparse(text) ==
  IF IsRawText(text)
  THEN IF text[1].text = "null" THEN ReturnedNull ELSE Thrown
  ELSE Returned([i \in 1..Len(text) |-> ParseItem(text[i])])

\* localStorage.getItem('cart'): null when there is no record
lsGetItem(st) == st

\* `if (savedCart)`: null and the empty string are falsy
Truthy(savedCart) ==
  /\ savedCart # None
  /\ ~(IsRawText(savedCart[1]) /\ savedCart[1][1].text = "")

\* mutant of loadCart: JSON.parse is called outside try/catch
loadCart_noCatch(hasWindow, st) ==
  IF ~hasWindow THEN Returned(<<>>)
  ELSE LET savedCart == lsGetItem(st)
       IN IF Truthy(savedCart) THEN JSONparse(savedCart[1])
          ELSE Returned(<<>>)

\* the lazy initializer of `items`
loadCart(hasWindow, st) ==
  IF ~hasWindow THEN Returned(<<>>)
  ELSE LET savedCart == lsGetItem(st)
       IN IF Truthy(savedCart)
          THEN LET parsed == JSONparse(savedCart[1])
               IN IF parsed.throws THEN Returned(<<>>) ELSE parsed
          ELSE Returned(<<>>)

\* the records a browser may hold at startup: none, strings that are not
\* the serialization of a cart, and the serializations of the carts explored
StoredQtys == {1, 2}
StoredLines ==
  UNION {{[product |-> Item(p), quantity |-> q, selectedVariants |-> v,
           selectedSize |-> s] :
            q \in StoredQtys, v \in VariantArgsOf(Item(p)),
            s \in SizeArgsOf(Item(p))} : p \in ProductIds}
StoredCarts ==
  {arr \in UNION {[1..n -> StoredLines] : n \in 0..MaxLines} : WithinBounds(arr)}
StoredTexts ==
  {RawText(""), RawText("{bad"), RawText("null")}
    \cup {JSONstringify(arr) : arr \in StoredCarts}

\* before the first render of CartProvider: `items` has no value yet
StartInit ==
  /\ store \in {None} \cup {Some(text) : text \in StoredTexts}
  /\ items = <<>>
  /\ directPurchaseItem = None
  /\ mounted = FALSE
  /\ last = NoCall
  /\ prevItems = <<>>
  /\ prevDirect = None
  /\ prevStore = None
  /\ itemsAtSet = None
  /\ snapshot = <<>>

\* the first render: useState runs the initializer; the render throws when
\* the initializer does, or when `items` is no array (items.reduce).  On the
\* server there is no window and no store.
Load ==
  \E hasWindow \in BOOLEAN :
    /\ last = NoCall /\ ~mounted
    /\ ~hasWindow => store = None
    /\ LET loaded == loadCart(hasWindow, store)
           renders == ~loaded.throws /\ loaded.isArray
       IN /\ items' = IF renders THEN loaded.value ELSE <<>>
          /\ last' = [op |-> "CartProvider",
                      args |-> <<IF renders THEN "rendered" ELSE "throws">>]
    /\ prevStore' = store
    /\ UNCHANGED <<directPurchaseItem, store, mounted, prevItems, prevDirect,
                   itemsAtSet, snapshot>>

\* the save effect of the first render, when it rendered
StartMount ==
  /\ last.op = "CartProvider"
  /\ last.args[1] = "rendered"
  /\ Mount

StartNext ==
  \/ Load
  \/ StartMount

StartSpec == StartInit /\ [][StartNext]_vars

\* ================================================================ claims
\* the lines of a sequence that belong to a product, and the others
LinesOf(arr, id) == {i \in 1..Len(arr) : arr[i].product.id = id}

RECURSIVE Without(_, _)
Without(arr, id) ==
  IF arr = <<>> THEN <<>>
  ELSE IF Head(arr).product.id = id THEN Without(Tail(arr), id)
  ELSE <<Head(arr)>> \o Without(Tail(arr), id)

\* identity key of a line: (product ID, selected size) for a product with
\* sizes, the product ID alone otherwise
IdentityKey(item) ==
  IF "sizes" \in DOMAIN item.product /\ item.product.sizes # <<>>
  THEN <<item.product.id, item.selectedSize>>
  ELSE <<item.product.id>>

CategorySet(product) ==
  IF "categoryIds" \in DOMAIN product
  THEN {product.categoryIds[i] : i \in 1..Len(product.categoryIds)}
  ELSE {}

MutatorOps == {"addItem", "removeItem", "updateQuantity", "updateItemSize", "replaceItem"}

\* a recorded call of op made in normal mode
NormalCall(op) == last.op = op /\ prevDirect = None

\* C1: no two lines of the cart sequence share an identity key.
C1_UniqueIdentity ==
  \A i, j \in 1..Len(items) :
    i # j => IdentityKey(items[i]) # IdentityKey(items[j])

\* C1 witness: updateItemSize has collapsed two sizes of one product, in a
\* cart that holds another product too.
C1_Witness ==
  /\ NormalCall("updateItemSize")
  /\ Cardinality(LinesOf(prevItems, last.args[1])) = 2
  /\ Len(prevItems) = 3
  /\ Len(items) = 2

\* C2: after clearCart and the save effect of its render, the store holds no
\* record under the cart key.
C2_ClearCartRemovesRecord == last.op = "clearCart" => store = None

\* C3: while a direct-purchase item is set the cart sequence is the one
\* setDirectPurchaseItem was called with; a call of addItem, removeItem,
\* updateQuantity, updateItemSize or replaceItem made then leaves it
\* unchanged; after clearDirectPurchase the reported items are that
\* sequence.
C3_DirectModeFrame ==
  /\ directPurchaseItem # None => itemsAtSet = Some(items)
  /\ (last.op \in MutatorOps /\ prevDirect # None) =>
        /\ items = prevItems
        /\ directPurchaseItem = prevDirect
  /\ (last.op = "clearDirectPurchase" /\ prevDirect # None) =>
        /\ directPurchaseItem = None
        /\ itemsAtSet # None
        /\ ctxItems = itemsAtSet[1]

\* C3 witness: addItem was called while a direct-purchase item was set over
\* a non-empty cart.
C3_Witness ==
  /\ last.op = "addItem"
  /\ prevDirect # None
  /\ Len(prevItems) >= 1

\* C4: the exposed reads are computed over the active item set: the
\* direct-purchase item alone when one is set, the cart sequence otherwise.
C4_ReadsOverActiveSet ==
  LET RECURSIVE Count(_)
      Count(n) == IF n = 0 THEN 0 ELSE Count(n - 1) + items[n].quantity
      RECURSIVE Amount(_)
      Amount(n) ==
        IF n = 0 THEN 0
        ELSE Amount(n - 1)
             + getEffectivePrice(items[n].product.pricing.basePrice,
                                 items[n].product.pricing.includeTransactionFee,
                                 items[n].product.pricing.transactionFeeRate)
               * items[n].quantity
  IN IF directPurchaseItem # None
     THEN LET d == directPurchaseItem[1]
          IN /\ ctxItems = <<d>>
             /\ ctxItemCount = d.quantity
             /\ ctxTotalAmount =
                  getEffectivePrice(d.product.pricing.basePrice,
                                    d.product.pricing.includeTransactionFee,
                                    d.product.pricing.transactionFeeRate) * d.quantity
     ELSE /\ ctxItems = items
          /\ ctxItemCount = Count(Len(items))
          /\ ctxTotalAmount = Amount(Len(items))

\* C4 witness: a direct-purchase item is set over a cart of two lines whose
\* own count and amount differ from the reported ones.
C4_Witness ==
  /\ directPurchaseItem # None
  /\ Len(items) = 2
  /\ itemCount # ctxItemCount
  /\ totalAmount # ctxTotalAmount

\* C5: in normal mode addItem(product, q, variants, size) adds q to the
\* quantity of the one line with the same identity key and changes nothing
\* else, or, when there is no such line, appends (product, q, variants, size).
C5_AddItemReconciles ==
  NormalCall("addItem") =>
    LET product == Item(last.args[1])
        q == IF last.args[2] = None THEN 1 ELSE last.args[2][1]
        new == [product |-> product, quantity |-> q,
                selectedVariants |-> last.args[3], selectedSize |-> last.args[4]]
        same == {i \in 1..Len(prevItems) :
                   IdentityKey(prevItems[i]) = IdentityKey(new)}
    IN IF same # {}
       THEN /\ Cardinality(same) = 1
            /\ Len(items) = Len(prevItems)
            /\ \A i \in 1..Len(items) :
                 IF i \in same
                 THEN /\ items[i].quantity = prevItems[i].quantity + q
                      /\ items[i].product = prevItems[i].product
                      /\ items[i].selectedVariants = prevItems[i].selectedVariants
                      /\ items[i].selectedSize = prevItems[i].selectedSize
                 ELSE items[i] = prevItems[i]
       ELSE items = prevItems \o <<new>>

\* C5 witness: an add merged into one of two lines of a product with sizes,
\* a line stored with other variants than the ones passed.
C5_Witness ==
  /\ NormalCall("addItem")
  /\ Len(items) = Len(prevItems)
  /\ \E i \in 1..Len(prevItems) :
       /\ prevItems[i].product.id = last.args[1]
       /\ prevItems[i].selectedVariants # last.args[3]
       /\ items[i].quantity = 2
       /\ prevItems[i].quantity = 1
       /\ \E j \in 1..Len(prevItems) :
            /\ j # i
            /\ prevItems[j].product.id = last.args[1]

\* C6: every line of the cart sequence has a quantity of at least 1.
C6_QuantitiesPositive == \A i \in 1..Len(items) : items[i].quantity >= 1

\* the case of C7 and C8: replaceItem(A.id, B, q) on a cart with lines for A
\* and none for B
ReplaceFresh ==
  /\ NormalCall("replaceItem")
  /\ LinesOf(prevItems, last.args[1]) # {}
  /\ LinesOf(prevItems, last.args[2]) = {}

OldLine == prevItems[CHOOSE i \in LinesOf(prevItems, last.args[1]) : TRUE]

\* C7: replaceItem(A.id, B, q) on a cart with exactly one line for A, of
\* quantity n >= 1, and none for B, the categories of A and B intersecting,
\* leaves exactly one line for B, of quantity n.
C7_SameCategoryPreserves ==
  ( /\ ReplaceFresh
    /\ Cardinality(LinesOf(prevItems, last.args[1])) = 1
    /\ OldLine.quantity >= 1
    /\ CategorySet(OldLine.product) \cap CategorySet(Item(last.args[2])) # {} )
  => /\ Cardinality(LinesOf(items, last.args[2])) = 1
     /\ \A i \in LinesOf(items, last.args[2]) : items[i].quantity = OldLine.quantity

\* C7 witness: a line of quantity 2 was replaced by a product of the same
\* category with another quantity requested.
C7_Witness ==
  /\ ReplaceFresh
  /\ Cardinality(LinesOf(prevItems, last.args[1])) = 1
  /\ OldLine.quantity = 2
  /\ CategorySet(OldLine.product) \cap CategorySet(Item(last.args[2])) # {}
  /\ last.args[3] # Some(2)
  /\ Len(prevItems) = 2

\* the case of C8: the categories of A and B do not intersect
ReplaceCross ==
  /\ ReplaceFresh
  /\ \A i \in LinesOf(prevItems, last.args[1]) :
       CategorySet(prevItems[i].product) \cap CategorySet(Item(last.args[2])) = {}

\* C8 as stated: after a cross-category replaceItem(A.id, B, q) the line for
\* B has quantity q for every supplied q, and 1 when q is omitted.
C8_CrossCategoryAsStated ==
  ReplaceCross =>
    \A i \in LinesOf(items, last.args[2]) :
      items[i].quantity = IF last.args[3] = None THEN 1 ELSE last.args[3][1]

\* C8 amended: after a cross-category replaceItem(A.id, B, q) there is one
\* line for B; its quantity is q for a supplied q other than 0, and 1 when q
\* is 0 or omitted.
C8_CrossCategory ==
  ReplaceCross =>
    /\ Cardinality(LinesOf(items, last.args[2])) = 1
    /\ \A i \in LinesOf(items, last.args[2]) :
         items[i].quantity =
           IF last.args[3] = None THEN 1
           ELSE IF last.args[3][1] = 0 THEN 1
           ELSE last.args[3][1]

\* C8 witness: a line of quantity 1 was replaced across categories with
\* quantity 2 requested.
C8_Witness ==
  /\ ReplaceCross
  /\ last.args[3] = Some(2)
  /\ \A i \in LinesOf(prevItems, last.args[1]) : prevItems[i].quantity = 1

\* what the record under the cart key says of a cart sequence
DocumentOf(doc, arr) ==
  /\ DOMAIN doc = 1..Len(arr)
  /\ \A i \in 1..Len(arr) :
       /\ {"product", "quantity"} \subseteq DOMAIN doc[i]
       /\ DOMAIN doc[i] \subseteq {"product", "quantity", "selectedVariants", "selectedSize"}
       /\ doc[i].product = arr[i].product
       /\ doc[i].quantity = arr[i].quantity
       /\ IF arr[i].selectedSize = Undef THEN "selectedSize" \notin DOMAIN doc[i]
          ELSE "selectedSize" \in DOMAIN doc[i] /\ doc[i].selectedSize = arr[i].selectedSize
       /\ IF arr[i].selectedVariants = None THEN "selectedVariants" \notin DOMAIN doc[i]
          ELSE /\ "selectedVariants" \in DOMAIN doc[i]
               /\ doc[i].selectedVariants = arr[i].selectedVariants[1]

\* C9: after a call of addItem, removeItem, updateQuantity, updateItemSize or
\* replaceItem the record under the cart key is the serialization of the
\* cart sequence; setDirectPurchaseItem and clearDirectPurchase leave the
\* record as it was.
C9_RecordFollowsCart ==
  /\ last.op \in MutatorOps => (store # None /\ DocumentOf(store[1], items))
  /\ last.op \in {"setDirectPurchaseItem", "clearDirectPurchase"} =>
       (store = prevStore /\ items = prevItems)

\* C9 witness: a call in normal mode changed a cart of two lines, one with a
\* size and one without, and the record with it.
C9_Witness ==
  /\ last.op \in MutatorOps
  /\ prevDirect = None
  /\ items # prevItems
  /\ store # prevStore
  /\ Len(items) = 2
  /\ items[1].selectedSize # Undef
  /\ items[2].selectedSize = Undef

\* C10: updateQuantity(id, q) with q <= 0 removes every line of product id,
\* keeps the other lines unchanged and in order, and gives the state
\* removeItem(id) gives.
C10_NonPositiveRemoves ==
  (NormalCall("updateQuantity") /\ last.args[2] <= 0) =>
    /\ LinesOf(items, last.args[1]) = {}
    /\ items = Without(prevItems, last.args[1])
    /\ items = removeItemUpdater(prevItems, last.args[1])
    /\ directPurchaseItem = prevDirect
    /\ store # None /\ DocumentOf(store[1], items)

\* C10 witness: updateQuantity(id, q <= 0) removed two lines of one product,
\* of different sizes, around a line of another product.
C10_Witness ==
  /\ NormalCall("updateQuantity")
  /\ last.args[2] <= 0
  /\ Len(prevItems) = 3
  /\ LinesOf(prevItems, last.args[1]) = {1, 3}
  /\ prevItems[1].selectedSize # prevItems[3].selectedSize
  /\ Len(items) = 1

\* C11: removeItem(id) gives the prior sequence with exactly the lines of
\* product id deleted, whatever their sizes, and the other lines kept in
\* order; a second removeItem(id) gives that same sequence again.
C11_RemoveItemIdempotent ==
  NormalCall("removeItem") =>
    /\ items = Without(prevItems, last.args[1])
    /\ LinesOf(items, last.args[1]) = {}
    /\ removeItemUpdater(items, last.args[1]) = items

\* C11 witness: removeItem(id) removed two lines of one product, of different
\* sizes, around a line of another product.
C11_Witness ==
  /\ NormalCall("removeItem")
  /\ Len(prevItems) = 3
  /\ LinesOf(prevItems, last.args[1]) = {1, 3}
  /\ prevItems[1].selectedSize # prevItems[3].selectedSize
  /\ Len(items) = 1

\* the record under the cart key at startup is no document: it fails to
\* deserialize
Malformed(record) ==
  /\ record # None
  /\ IsRawText(record[1])
  /\ record[1][1].text \in {"", "{bad"}

\* C12: at startup, with no record under the cart key or a record that
\* fails to deserialize, the initial cart is the empty sequence and the
\* provider renders; with the serialization of a sequence of line items the
\* initial cart is that sequence.
C12_StartupLoad ==
  last.op = "CartProvider" =>
    /\ (prevStore = None \/ Malformed(prevStore)) =>
          (items = <<>> /\ last.args[1] = "rendered")
    /\ (prevStore # None /\ ~IsRawText(prevStore[1])) =>
          /\ last.args[1] = "rendered"
          /\ DocumentOf(prevStore[1], items)

\* C12 witness: the provider started on a record that is not JSON and its
\* first save effect has run.
C12_Witness ==
  /\ last.op = "CartProvider"
  /\ prevStore = Some(RawText("{bad"))
  /\ mounted
  /\ items = <<>>

\* the case of C13: updateItemSize(P, s) on a cart with two lines of P, one
\* of size s and one of another size
TargetLines == {i \in LinesOf(prevItems, last.args[1]) :
                  prevItems[i].selectedSize = last.args[2]}
MergeCase ==
  /\ NormalCall("updateItemSize")
  /\ Cardinality(LinesOf(prevItems, last.args[1])) = 2
  /\ Cardinality(TargetLines) = 1

\* C13: updateItemSize(P, s) on a cart with two lines of P, one of size s
\* (quantity a) and one of another size (quantity b), in either order,
\* leaves one line for P, of quantity a + b.
C13_MergeKeepsQuantity ==
  MergeCase =>
    /\ Cardinality(LinesOf(items, last.args[1])) = 1
    /\ \A i \in LinesOf(items, last.args[1]) :
         items[i].quantity =
           reduceSum([k \in 1..Len(prevItems) |->
                        IF k \in LinesOf(prevItems, last.args[1])
                        THEN prevItems[k].quantity ELSE 0])

\* the first line of product P in the prior sequence
FirstLine == CHOOSE i \in LinesOf(prevItems, last.args[1]) :
               \A j \in LinesOf(prevItems, last.args[1]) : i <= j

\* C14: after updateItemSize(P, s) on a cart with at least one line for P
\* there is exactly one line for P, of size s, at the position of the first
\* line of P in the prior sequence; when no line of P had size s, it keeps
\* the quantity, product and variants of that first line; the lines of the
\* other products are unchanged and in order.
C14_UpdateItemSizeFrame ==
  (NormalCall("updateItemSize") /\ LinesOf(prevItems, last.args[1]) # {}) =>
    /\ LinesOf(items, last.args[1]) = {FirstLine}
    /\ items[FirstLine].selectedSize = last.args[2]
    /\ TargetLines = {} =>
         /\ items[FirstLine].quantity = prevItems[FirstLine].quantity
         /\ items[FirstLine].product = prevItems[FirstLine].product
         /\ items[FirstLine].selectedVariants = prevItems[FirstLine].selectedVariants
    /\ Without(items, last.args[1]) = Without(prevItems, last.args[1])
    /\ \A k \in 1..(FirstLine - 1) : items[k] = prevItems[k]

\* C14 witness: updateItemSize(P, s) on a line of another size with variants
\* and quantity 2, standing after a line of another product.
C14_Witness ==
  /\ NormalCall("updateItemSize")
  /\ Len(prevItems) = 2
  /\ LinesOf(prevItems, last.args[1]) = {2}
  /\ TargetLines = {}
  /\ prevItems[2].quantity = 2
  /\ prevItems[2].selectedVariants # None

\* the case of C15: replaceItem(oldId, newProduct, q, variants, size) on a
\* cart that, the lines of oldId set aside, holds a line with the identity
\* key of (newProduct, size)
ReplaceFound ==
  {i \in LinesOf(prevItems, last.args[2]) :
     /\ last.args[1] # last.args[2]
     /\ IdentityKey(prevItems[i]) =
          IdentityKey([product |-> Item(last.args[2]), selectedSize |-> last.args[5]])}

ReplaceMerge == NormalCall("replaceItem") /\ ReplaceFound # {}

FoundLine == CHOOSE i \in ReplaceFound : \A j \in ReplaceFound : i <= j

\* where that line stands once the lines of oldId are removed
FoundAfter ==
  FoundLine - Cardinality({j \in LinesOf(prevItems, last.args[1]) : j < FoundLine})

FirstOld == CHOOSE i \in LinesOf(prevItems, last.args[1]) :
              \A j \in LinesOf(prevItems, last.args[1]) : i <= j

Max(a, b) == IF a >= b THEN a ELSE b

C16_ReplaceFrame ==
  (NormalCall("replaceItem") /\ last.args[1] # last.args[2]) =>
    /\ LinesOf(items, last.args[1]) = {}
    /\ LinesOf(items, last.args[2]) # {}
    /\ Without(Without(items, last.args[1]), last.args[2])
         = Without(Without(prevItems, last.args[1]), last.args[2])

\* C16 witness: replaceItem removed two lines of the old product, of
\* different sizes, around a line of a third product.
C16_Witness ==
  /\ NormalCall("replaceItem")
  /\ last.args[1] # last.args[2]
  /\ Len(prevItems) = 3
  /\ LinesOf(prevItems, last.args[1]) = {1, 3}
  /\ prevItems[1].selectedSize # prevItems[3].selectedSize
  /\ LinesOf(prevItems, last.args[2]) = {}
  /\ Len(items) = 2

\* C17: updateQuantity(id, q) with q > 0 sets the quantity of every line of
\* product id to q and changes nothing else; with no line of product id the
\* cart sequence is unchanged.
C17_UpdateQuantityOverwrites ==
  (NormalCall("updateQuantity") /\ last.args[2] > 0) =>
    /\ Len(items) = Len(prevItems)
    /\ \A i \in 1..Len(prevItems) :
         IF prevItems[i].product.id = last.args[1]
         THEN /\ items[i].quantity = last.args[2]
              /\ items[i].product = prevItems[i].product
              /\ items[i].selectedSize = prevItems[i].selectedSize
              /\ items[i].selectedVariants = prevItems[i].selectedVariants
         ELSE items[i] = prevItems[i]
    /\ LinesOf(prevItems, last.args[1]) = {} => items = prevItems
    /\ directPurchaseItem = prevDirect

\* C17 witness: updateQuantity(id, 1) on two lines of product id, of
\* different sizes, one of them of quantity 2.
C17_Witness ==
  /\ NormalCall("updateQuantity")
  /\ last.args[2] = 1
  /\ Len(prevItems) = 2
  /\ LinesOf(prevItems, last.args[1]) = {1, 2}
  /\ prevItems[1].selectedSize # prevItems[2].selectedSize
  /\ prevItems[1].quantity = 2

\* C18: after clearCart, in either mode, the cart sequence is empty, no
\* direct-purchase item is set, the reported items are empty and itemCount
\* is 0; clearDirectPurchase clears the direct-purchase item and leaves the
\* cart sequence unchanged.
C18_ClearCartBothModes ==
  /\ last.op = "clearCart" =>
       /\ items = <<>>
       /\ directPurchaseItem = None
       /\ ctxItems = <<>>
       /\ ctxItemCount = 0
  /\ last.op = "clearDirectPurchase" =>
       /\ directPurchaseItem = None
       /\ items = prevItems

\* C18 witness: clearCart was called while a direct-purchase item was set
\* over a cart of two lines.
C18_Witness ==
  /\ last.op = "clearCart"
  /\ prevDirect # None
  /\ Len(prevItems) = 2

\* C19: a stored direct-purchase item never has both variants and a size;
\* setDirectPurchaseItem with a variant ID stores {variant: id} and no size,
\* without one it stores the supplied size and no variants; the stored item
\* is the one of the latest call.
C19_DirectItemShape ==
  /\ directPurchaseItem # None =>
       ~(/\ directPurchaseItem[1].selectedVariants # None
         /\ directPurchaseItem[1].selectedSize # Undef)
  /\ last.op = "setDirectPurchaseItem" =>
       /\ directPurchaseItem # None
       /\ directPurchaseItem[1].product = Item(last.args[1])
       /\ directPurchaseItem[1].quantity = last.args[2]
       /\ IF last.args[3] # None
          THEN /\ directPurchaseItem[1].selectedVariants
                    = Some([variant |-> last.args[3][1]])
               /\ directPurchaseItem[1].selectedSize = Undef
          ELSE /\ directPurchaseItem[1].selectedVariants = None
               /\ directPurchaseItem[1].selectedSize = last.args[4]

\* C19 witness: setDirectPurchaseItem with a variant ID and a size replaced
\* a direct-purchase item that had a size and no variants.
C19_Witness ==
  /\ last.op = "setDirectPurchaseItem"
  /\ prevDirect # None
  /\ prevDirect[1].selectedSize = "M"
  /\ last.args[3] # None
  /\ last.args[4] = "M"

\* C20: the updater of addItem leaves the prior sequence and its line
\* items as they were (an array obtained before the call still shows the
\* old quantities), and evaluated again on that prior sequence it gives the
\* same next state.
C20_AddItemPure ==
  NormalCall("addItem") =>
    /\ snapshot = prevItems
    /\ addItemUpdater(snapshot, Item(last.args[1]), DefaultOne(last.args[2]),
                      last.args[3], last.args[4]) = items

====
